---- MODULE Spec2Model ----
(***************************************************************************)
(* Model of cmd/minikube/cmd/config/util.go: the setting applier (run),    *)
(* the registry lookup (findSetting) and the add-on toggle orchestrator    *)
(* (EnableOrDisableAddon).  One behaviour is one process invocation that   *)
(* executes one of these operations on inputs drawn from small sets.       *)
(***************************************************************************)
EXTENDS Integers, Sequences, FiniteSets, TLC

VARIABLES
  cmd,        \* the operation this process invocation executes
  pc,         \* position inside the operation
  status,     \* "running" | "returned" | "exited" (os.Exit) | "panicked"
  name,       \* argument: setting name / add-on name
  val,        \* argument: raw value / raw enable flag
  fns,        \* argument of run: the list of validation/callback functions
  idx,        \* run: position of the range loop in fns
  errors,     \* run: the local slice of collected errors
  settings,   \* the package-level settings registry
  setting,    \* findSetting: the returned Setting
  useVendoredDriver, \* viper flag read by GetClientType
  enable,     \* EnableOrDisableAddon: local enable
  err,        \* EnableOrDisableAddon: the function-scope local err
  creds,      \* EnableOrDisableAddon: the eight credential locals
  api,        \* client handle: "none" | "open" | "closed"
  addon,      \* local addon (pointer into assets.Addons, possibly nil)
  host,       \* local host (possibly nil)
  ret,        \* the returned error value
  calls,      \* ordered log of the calls made to collaborators
  out,        \* lines printed to stdout/stderr
  m,          \* the configuration store (config.MinikubeConfig)
  clientType  \* GetClientType: the returned machine.ClientType

vars == <<cmd, pc, status, name, val, fns, idx, errors, settings, setting,
          useVendoredDriver, enable, err, creds, api, addon, host, ret,
          calls, out, m, clientType>>

----------------------------------------------------------------------------
(* Bounds *)
MaxFns == 3
MaxSettings == 3

----------------------------------------------------------------------------
(* Values *)

\* Go error values: nil, or an error with a text (a sequence of tokens).
Nil == [nil |-> TRUE, text |-> <<>>]
Err(t) == [nil |-> FALSE, text |-> t]

\* text contains sub as a contiguous run of tokens
Contains(text, sub) ==
  \E k \in 1..(Len(text) - Len(sub) + 1) :
     SubSeq(text, k, k + Len(sub) - 1) = sub

Call(op, arg, res) == [op |-> op, arg |-> arg, res |-> res]

SeqsUpTo(S, n) == UNION { [1..k -> S] : k \in 0..n }

----------------------------------------------------------------------------
(* run: the validation/callback runner (util.go 36-49) *)

Values == {"42", "4a"}
Msgs == {"e1", "e2"}

\* A setFn is modelled by the values it rejects and the message of the
\* error it then returns.
SetFns == [msg : Msgs, rejects : SUBSET Values]

\* fn(name, value)
ApplyFn(fn, n, v) == IF v \in fn.rejects THEN Err(<<fn.msg>>) ELSE Nil

\* fmt's %v of a []error: "[" + the messages separated by one space + "]"
RECURSIVE JoinErrors(_)
JoinErrors(es) ==
  IF Len(es) = 0 THEN <<>>
  ELSE IF Len(es) = 1 THEN es[1].text
  ELSE es[1].text \o <<" ">> \o JoinErrors(Tail(es))

FormatV(es) == <<"[">> \o JoinErrors(es) \o <<"]">>

\* lines 41-43: if err != nil { errors = append(errors, err) }
runCollectFirstOnly(es, e) ==
  IF ~e.nil /\ Len(es) = 0 THEN Append(es, e) ELSE es

runCollect(es, e) == IF ~e.nil THEN Append(es, e) ELSE es

\* line 39: the range loop moves to the next function whatever fn returned
runAdvanceShortCircuit(i, e) == IF e.nil THEN i + 1 ELSE Len(fns) + 1

runAdvance(i, e) == i + 1

\* lines 45-48
runResult(es) == IF Len(es) > 0 THEN Err(FormatV(es)) ELSE Nil

\* one iteration of the loop of lines 39-44
runIterate ==
  /\ cmd = "run" /\ pc = "run_loop" /\ idx <= Len(fns)
  /\ LET e == ApplyFn(fns[idx], name, val) IN
       /\ calls' = Append(calls,
                     Call("fn", [idx |-> idx, fn |-> fns[idx],
                                 name |-> name, value |-> val], e))
       /\ errors' = runCollect(errors, e)
       /\ idx' = runAdvance(idx, e)
  /\ UNCHANGED <<m, clientType,
                 cmd, pc, status, name, val, fns, settings, setting,
                 useVendoredDriver, enable, err, creds, api, addon, host,
                 ret, out>>

\* lines 45-48: the loop is over
runReturn ==
  /\ cmd = "run" /\ pc = "run_loop" /\ idx > Len(fns)
  /\ ret' = runResult(errors)
  /\ pc' = "done"
  /\ status' = "returned"
  /\ UNCHANGED <<m, clientType,
                 cmd, name, val, fns, idx, errors, settings, setting,
                 useVendoredDriver, enable, err, creds, api, addon, host,
                 calls, out>>

----------------------------------------------------------------------------
(* findSetting: linear scan of the registry (util.go 51-58) *)

SettingNames == {"vm-driver", "cpus"}
SetKinds == {"SetString", "SetInt"}
Settings == [name : SettingNames, set : SetKinds]

\* Setting{}
ZeroSetting == [name |-> "", set |-> "nil"]

\* fmt.Errorf("Property name %s not found", name)
NotFound(n) == Err(<<"Property name ", n, " not found">>)

\* the scan of lines 52-56, from position i on
RECURSIVE findFromLast(_, _, _)
findFromLast(ss, i, n) ==
  IF i > Len(ss) THEN [s |-> ZeroSetting, err |-> NotFound(n)]
  ELSE LET r == findFromLast(ss, i + 1, n) IN
         IF r.err.nil THEN r
         ELSE IF n = ss[i].name THEN [s |-> ss[i], err |-> Nil]
         ELSE r

RECURSIVE findFrom(_, _, _)
findFrom(ss, i, n) ==
  IF i > Len(ss) THEN [s |-> ZeroSetting, err |-> NotFound(n)]
  ELSE IF n = ss[i].name THEN [s |-> ss[i], err |-> Nil]
  ELSE findFrom(ss, i + 1, n)

findSetting(n) == findFrom(settings, 1, n)

findSettingCall ==
  /\ cmd = "findSetting" /\ pc = "findSetting"
  /\ setting' = findSetting(name).s
  /\ ret' = findSetting(name).err
  /\ pc' = "done"
  /\ status' = "returned"
  /\ UNCHANGED <<m, clientType,
                 cmd, name, val, fns, idx, errors, settings,
                 useVendoredDriver, enable, err, creds, api, addon, host,
                 calls, out>>
----------------------------------------------------------------------------
(* EnableOrDisableAddon: the add-on toggle (util.go 92-234) *)

AddonNames == {"registry-creds", "dashboard", "no-such-addon"}
FlagVals == {"true", "1", "false", "F", "maybe"}
StaticAnswers == {"in1", "in2"}
FileContents == {"adc-json"}

ParseBoolLenient(str) ==
  IF str \in {"1", "t", "T", "TRUE", "true", "True", "yes", "tRUE"}
    THEN [val |-> TRUE, err |-> Nil]
  ELSE IF str \in {"0", "f", "F", "FALSE", "false", "False", "no"}
    THEN [val |-> FALSE, err |-> Nil]
  ELSE [val |-> FALSE,
        err |-> Err(<<"strconv.ParseBool: parsing ", str,
                      ": invalid syntax">>)]

\* strconv.ParseBool
ParseBool(str) ==
  IF str \in {"1", "t", "T", "TRUE", "true", "True"}
    THEN [val |-> TRUE, err |-> Nil]
  ELSE IF str \in {"0", "f", "F", "FALSE", "false", "False"}
    THEN [val |-> FALSE, err |-> Nil]
  ELSE [val |-> FALSE,
        err |-> Err(<<"strconv.ParseBool: parsing ", str,
                      ": invalid syntax">>)]

\* the external registry assets.Addons: name -> *Addon
NilAddon == [nil |-> TRUE, name |-> ""]
Addons == [n \in {"registry-creds", "dashboard"} |->
             [nil |-> FALSE, name |-> n]]

\* addon, _ := assets.Addons[name]: a missing key yields the nil pointer
LookupAddon(n) == IF n \in DOMAIN Addons THEN Addons[n] ELSE NilAddon

NilHost == [nil |-> TRUE, Driver |-> "nil"]
Host == [nil |-> FALSE, Driver |-> "driver"]

\* errors.Wrapf(err, format, name): "<format with name>: <cause>"
Wrapf(e, pre, n, post) == Err(<<pre, n, post, ": ">> \o e.text)

\* the locals of lines 107-114 before they are declared
NoCreds ==
  [awsAccessID |-> "", awsAccessKey |-> "", awsRegion |-> "",
   awsAccount |-> "", gcrApplicationDefaultCredentials |-> "",
   dockerServer |-> "", dockerUser |-> "", dockerPass |-> ""]

\* lines 107-114: default values
DefaultCredsBlank == [NoCreds EXCEPT !.awsAccessID = "changeme"]

DefaultCreds ==
  [awsAccessID |-> "changeme", awsAccessKey |-> "changeme",
   awsRegion |-> "changeme", awsAccount |-> "changeme",
   gcrApplicationDefaultCredentials |-> "changeme",
   dockerServer |-> "changeme", dockerUser |-> "changeme",
   dockerPass |-> "changeme"]

\* lines 85-90
GetClientTypeInverted ==
  IF useVendoredDriver THEN "ClientTypeRPC" ELSE "ClientTypeLocal"

GetClientType ==
  IF useVendoredDriver THEN "ClientTypeLocal" ELSE "ClientTypeRPC"

SecretLabels(cloud) ==
  ("app" :> "registry-creds") @@ ("cloud" :> cloud) @@
  ("kubernetes.io/minikube-addons" :> "registry-creds")

\* the data maps of lines 149-154, 169-171, 186-190
EcrData(c) ==
  ("AWS_ACCESS_KEY_ID" :> c.awsAccessID) @@
  ("AWS_SECRET_ACCESS_KEY" :> c.awsAccessKey) @@
  ("aws-account" :> c.awsAccount) @@
  ("aws-region" :> c.awsRegion)

GcrData(c) ==
  ("application_default_credentials.json" :>
      c.gcrApplicationDefaultCredentials)

DprData(c) ==
  ("DOCKER_PRIVATE_REGISTRY_SERVER" :> c.dockerServer) @@
  ("DOCKER_PRIVATE_REGISTRY_USER" :> c.dockerUser) @@
  ("DOCKER_PRIVATE_REGISTRY_PASSWORD" :> c.dockerPass)

CreateSecretCall(secret, data, cloud, ok) ==
  Call("CreateSecret",
       [ns |-> "kube-system", name |-> secret, data |-> data,
        labels |-> SecretLabels(cloud)], ok)

DeleteSecretCall(secret, ok) ==
  Call("DeleteSecret", [ns |-> "kube-system", name |-> secret], ok)

YesNo(prompt, answer) == Call("AskForYesNoConfirmation", prompt, answer)
Static(prompt, answer) == Call("AskForStaticValue", prompt, answer)

\* lines 100-101, 203: where the flow goes once enable is known
AfterParseAlwaysSecrets(en, n) ==
  IF en THEN "AskECR" ELSE "DeleteECR"

AfterParse(en, n) ==
  IF en THEN (IF n = "registry-creds" THEN "AskECR" ELSE "NewAPIClient")
  ELSE "DeleteECR"

ParseFlagAbort ==
  /\ cmd = "EnableOrDisableAddon" /\ pc = "ParseFlag"
  /\ enable' = ParseBool(val).val
  /\ err' = ParseBool(val).err
  /\ IF err'.nil
     THEN /\ pc' = AfterParse(enable', name)
          /\ UNCHANGED <<status, ret>>
     ELSE /\ pc' = "done"
          /\ status' = "returned"
          /\ ret' = err'
  /\ UNCHANGED <<m, clientType, cmd, name, val, fns, idx, errors, settings,
                 setting, useVendoredDriver, creds, api, addon, host, calls,
                 out>>

\* lines 94-97: the parse error is wrapped and dropped, the flow goes on
ParseFlag ==
  /\ cmd = "EnableOrDisableAddon" /\ pc = "ParseFlag"
  /\ enable' = ParseBool(val).val
  /\ err' = ParseBool(val).err
  /\ pc' = AfterParse(enable', name)
  /\ UNCHANGED <<m, clientType,
                 cmd, status, name, val, fns, idx, errors, settings,
                 setting, useVendoredDriver, creds, api, addon, host, ret,
                 calls, out>>

\* lines 103-122: defaults, then the AWS ECR confirmation and its prompts
AskECR ==
  /\ cmd = "EnableOrDisableAddon" /\ pc = "AskECR"
  /\ \E enableAWSECR \in BOOLEAN :
       IF enableAWSECR
       THEN \E id \in StaticAnswers, key \in StaticAnswers,
               region \in StaticAnswers, account \in StaticAnswers :
              /\ creds' = [DefaultCreds EXCEPT !.awsAccessID = id,
                                               !.awsAccessKey = key,
                                               !.awsRegion = region,
                                               !.awsAccount = account]
              /\ calls' = calls \o
                   <<YesNo("enable AWS Elastic Container Registry?", TRUE),
                     Static("AWS Access Key ID", id),
                     Static("AWS Secret Access Key", key),
                     Static("AWS Region", region),
                     Static("12 digit AWS Account ID", account)>>
       ELSE /\ creds' = DefaultCreds
            /\ calls' = Append(calls,
                   YesNo("enable AWS Elastic Container Registry?", FALSE))
  /\ pc' = "AskGCR"
  /\ UNCHANGED <<m, clientType,
                 cmd, status, name, val, fns, idx, errors, settings,
                 setting, useVendoredDriver, enable, err, api, addon, host,
                 ret, out>>

AskGCRAbortOnReadError ==
  /\ cmd = "EnableOrDisableAddon" /\ pc = "AskGCR"
  /\ \E enableGCR \in BOOLEAN :
       IF enableGCR
       THEN \E gcrPath \in StaticAnswers, readOk \in BOOLEAN,
               dat \in FileContents :
              /\ calls' = calls \o
                   <<YesNo("enable Google Container Registry?", TRUE),
                     Static("path to credentials", gcrPath),
                     Call("ReadFile", gcrPath,
                          IF readOk THEN dat ELSE "error")>>
              /\ IF readOk
                 THEN /\ creds' = [creds EXCEPT
                              !.gcrApplicationDefaultCredentials = dat]
                      /\ pc' = "AskDR"
                      /\ UNCHANGED <<status, ret>>
                 ELSE /\ creds' = creds
                      /\ pc' = "done"
                      /\ status' = "returned"
                      /\ ret' = Err(<<"ReadFile">>)
       ELSE /\ calls' = Append(calls,
                   YesNo("enable Google Container Registry?", FALSE))
            /\ pc' = "AskDR"
            /\ UNCHANGED <<creds, status, ret>>
  /\ UNCHANGED <<m, clientType, cmd, name, val, fns, idx, errors, settings,
                 setting, useVendoredDriver, enable, err, api, addon, host,
                 out>>

\* line 132
ReadFileWarning ==
  "Could not read file for application_default_credentials.json"

\* lines 124-136: the GCR confirmation, the path prompt and the file read;
\* the err of line 129 is a new variable of the inner block
AskGCR ==
  /\ cmd = "EnableOrDisableAddon" /\ pc = "AskGCR"
  /\ \E enableGCR \in BOOLEAN :
       IF enableGCR
       THEN \E gcrPath \in StaticAnswers, readOk \in BOOLEAN,
               dat \in FileContents :
              /\ calls' = calls \o
                   <<YesNo("enable Google Container Registry?", TRUE),
                     Static("path to credentials", gcrPath),
                     Call("ReadFile", gcrPath,
                          IF readOk THEN dat ELSE "error")>>
              /\ IF readOk
                 THEN /\ creds' = [creds EXCEPT
                              !.gcrApplicationDefaultCredentials = dat]
                      /\ out' = out
                 ELSE /\ creds' = creds
                      /\ out' = Append(out, ReadFileWarning)
       ELSE /\ calls' = Append(calls,
                   YesNo("enable Google Container Registry?", FALSE))
            /\ UNCHANGED <<creds, out>>
  /\ pc' = "AskDR"
  /\ UNCHANGED <<m, clientType,
                 cmd, status, name, val, fns, idx, errors, settings,
                 setting, useVendoredDriver, enable, err, api, addon, host,
                 ret>>

\* lines 138-143: the Docker registry confirmation and its prompts
AskDR ==
  /\ cmd = "EnableOrDisableAddon" /\ pc = "AskDR"
  /\ \E enableDR \in BOOLEAN :
       IF enableDR
       THEN \E server \in StaticAnswers, user \in StaticAnswers,
               pass \in StaticAnswers :
              /\ creds' = [creds EXCEPT !.dockerServer = server,
                                        !.dockerUser = user,
                                        !.dockerPass = pass]
              /\ calls' = calls \o
                   <<YesNo("enable Docker Registry?", TRUE),
                     Static("docker registry server url", server),
                     Static("docker registry username", user),
                     Static("docker registry password", pass)>>
       ELSE /\ creds' = creds
            /\ calls' = Append(calls, YesNo("enable Docker Registry?", FALSE))
  /\ pc' = "CreateECR"
  /\ UNCHANGED <<m, clientType,
                 cmd, status, name, val, fns, idx, errors, settings,
                 setting, useVendoredDriver, enable, err, api, addon, host,
                 ret, out>>

CreateStepStopOnFailure(from, to, secret, data, cloud, report) ==
  /\ cmd = "EnableOrDisableAddon" /\ pc = from
  /\ \E ok \in BOOLEAN :
       /\ calls' = Append(calls, CreateSecretCall(secret, data, cloud, ok))
       /\ err' = IF ok THEN Nil ELSE Err(<<"CreateSecret ", secret>>)
       /\ out' = IF ok THEN out ELSE Append(out, report)
       /\ pc' = IF ok THEN to ELSE "done"
       /\ status' = IF ok THEN status ELSE "returned"
       /\ ret' = err'
  /\ UNCHANGED <<m, clientType, cmd, name, val, fns, idx, errors, settings,
                 setting, useVendoredDriver, enable, creds, api, addon,
                 host>>

\* one service.CreateSecret call with its error report: the failure is
\* printed and the flow goes on (lines 146-163, 166-180, 183-199)
CreateStep(from, to, secret, data, cloud, report) ==
  /\ cmd = "EnableOrDisableAddon" /\ pc = from
  /\ \E ok \in BOOLEAN :
       /\ calls' = Append(calls, CreateSecretCall(secret, data, cloud, ok))
       /\ err' = IF ok THEN Nil ELSE Err(<<"CreateSecret ", secret>>)
       /\ out' = IF ok THEN out ELSE Append(out, report)
  /\ pc' = to
  /\ UNCHANGED <<m, clientType,
                 cmd, status, name, val, fns, idx, errors, settings,
                 setting, useVendoredDriver, enable, creds, api, addon, host,
                 ret>>

CreateECR ==
  CreateStep("CreateECR", "CreateGCR", "registry-creds-ecr", EcrData(creds),
             "ecr", "ERROR creating registry-creds-ecr secret")

CreateGCR ==
  CreateStep("CreateGCR", "CreateDPR", "registry-creds-gcr", GcrData(creds),
             "gcr", "ERROR creating registry-creds-gcr secret")

CreateDPR ==
  CreateStep("CreateDPR", "NewAPIClient", "registry-creds-dpr",
             DprData(creds), "dpr",
             "ERROR creating registry-creds-dpr secret")

DeleteStepStopOnFailure(from, to, secret) ==
  /\ cmd = "EnableOrDisableAddon" /\ pc = from
  /\ \E ok \in BOOLEAN :
       /\ calls' = Append(calls, DeleteSecretCall(secret, ok))
       /\ pc' = IF ok THEN to ELSE "done"
       /\ status' = IF ok THEN status ELSE "returned"
       /\ ret' = IF ok THEN ret ELSE Err(<<"DeleteSecret ", secret>>)
  /\ UNCHANGED <<m, clientType,
                 cmd, name, val, fns, idx, errors, settings, setting,
                 useVendoredDriver, enable, err, creds, api, addon, host,
                 out>>

\* one service.DeleteSecret call, its result dropped (lines 205-207)
DeleteStep(from, to, secret) ==
  /\ cmd = "EnableOrDisableAddon" /\ pc = from
  /\ \E ok \in BOOLEAN :
       calls' = Append(calls, DeleteSecretCall(secret, ok))
  /\ pc' = to
  /\ UNCHANGED <<m, clientType,
                 cmd, status, name, val, fns, idx, errors, settings,
                 setting, useVendoredDriver, enable, err, creds, api, addon,
                 host, ret, out>>

DeleteECR == DeleteStep("DeleteECR", "DeleteGCR", "registry-creds-ecr")

DeleteGCR == DeleteStep("DeleteGCR", "DeleteDPR", "registry-creds-gcr")

DeleteDPR == DeleteStep("DeleteDPR", "NewAPIClient", "registry-creds-dpr")

\* lines 211-216: the client is requested with the resolved client type; a
\* failure prints and terminates the process, a success registers the
\* deferred api.Close()
NewAPIClient ==
  /\ cmd = "EnableOrDisableAddon" /\ pc = "NewAPIClient"
  /\ \E ok \in BOOLEAN :
       /\ calls' = Append(calls, Call("NewAPIClient", GetClientType, ok))
       /\ IF ok
          THEN /\ err' = Nil
               /\ api' = "open"
               /\ pc' = "EnsureRunning"
               /\ UNCHANGED <<status, out>>
          ELSE /\ err' = Err(<<"NewAPIClient">>)
               /\ out' = Append(out, "Error getting client")
               /\ status' = "exited"
               /\ pc' = "done"
               /\ api' = api
  /\ UNCHANGED <<m, clientType,
                 cmd, name, val, fns, idx, errors, settings, setting,
                 useVendoredDriver, enable, creds, addon, host, ret>>

EnsureRunningNoExit ==
  /\ cmd = "EnableOrDisableAddon" /\ pc = "EnsureRunning"
  /\ \E running \in BOOLEAN :
       calls' = Append(calls,
                  Call("EnsureMinikubeRunningOrExit", "api", running))
  /\ pc' = "ResolveAddon"
  /\ UNCHANGED <<m, clientType, cmd, status, name, val, fns, idx, errors,
                 settings, setting, useVendoredDriver, enable, err, creds,
                 api, addon, host, ret, out>>

EnsureRunningUndo ==
  /\ cmd = "EnableOrDisableAddon" /\ pc = "EnsureRunning"
  /\ \E running \in BOOLEAN :
       IF running
       THEN /\ calls' = Append(calls,
                   Call("EnsureMinikubeRunningOrExit", "api", TRUE))
            /\ pc' = "ResolveAddon"
            /\ status' = status
       ELSE /\ calls' = calls \o
                   <<Call("EnsureMinikubeRunningOrExit", "api", FALSE),
                     DeleteSecretCall("registry-creds-ecr", TRUE),
                     DeleteSecretCall("registry-creds-gcr", TRUE),
                     DeleteSecretCall("registry-creds-dpr", TRUE)>>
            /\ pc' = "done"
            /\ status' = "exited"
  /\ UNCHANGED <<m, clientType, cmd, name, val, fns, idx, errors, settings,
                 setting, useVendoredDriver, enable, err, creds, api, addon,
                 host, ret, out>>

\* line 217: cluster.EnsureMinikubeRunningOrExit(api, 0) returns only when
\* the cluster runs; otherwise it terminates the process, and os.Exit runs
\* no deferred call
EnsureRunning ==
  /\ cmd = "EnableOrDisableAddon" /\ pc = "EnsureRunning"
  /\ \E running \in BOOLEAN :
       /\ calls' = Append(calls,
                     Call("EnsureMinikubeRunningOrExit", "api", running))
       /\ IF running
          THEN /\ pc' = "ResolveAddon"
               /\ status' = status
          ELSE /\ pc' = "done"
               /\ status' = "exited"
  /\ UNCHANGED <<m, clientType,
                 cmd, name, val, fns, idx, errors, settings, setting,
                 useVendoredDriver, enable, err, creds, api, addon, host,
                 ret, out>>

\* lines 219-222: the lookup drops its found flag; the err tested is the
\* one NewAPIClient left
ResolveAddon ==
  /\ cmd = "EnableOrDisableAddon" /\ pc = "ResolveAddon"
  /\ addon' = LookupAddon(name)
  /\ IF ~err.nil
     THEN /\ ret' = err
          /\ pc' = "Return"
     ELSE /\ ret' = ret
          /\ pc' = "LoadHost"
  /\ UNCHANGED <<m, clientType,
                 cmd, status, name, val, fns, idx, errors, settings,
                 setting, useVendoredDriver, enable, err, creds, api, host,
                 calls, out>>

\* line 223: host, err := cluster.CheckIfApiExistsAndLoad(api); a failure
\* yields the nil host
LoadHost ==
  /\ cmd = "EnableOrDisableAddon" /\ pc = "LoadHost"
  /\ \E ok \in BOOLEAN :
       /\ calls' = Append(calls, Call("CheckIfApiExistsAndLoad", "api", ok))
       /\ host' = IF ok THEN Host ELSE NilHost
       /\ err' = IF ok THEN Nil ELSE Err(<<"CheckIfApiExistsAndLoad">>)
  /\ pc' = "Dispatch"
  /\ UNCHANGED <<m, clientType,
                 cmd, status, name, val, fns, idx, errors, settings,
                 setting, useVendoredDriver, enable, creds, api, addon, ret,
                 out>>

\* lines 236-245 and 247-256: open the transport, then one payload request
viaDriver(op, a, d, sshOk, opOk) ==
  IF ~sshOk
  THEN [calls |-> <<Call("NewSSHClient", d, FALSE)>>,
        err |-> Err(<<"NewSSHClient">>)]
  ELSE [calls |-> <<Call("NewSSHClient", d, TRUE), Call(op, a, opOk)>>,
        err |-> IF opOk THEN Nil ELSE Err(<<op>>)]

deleteAddonViaDriver(a, d, sshOk, opOk) ==
  viaDriver("DeleteAddon", a, d, sshOk, opOk)

transferAddonViaDriver(a, d, sshOk, opOk) ==
  viaDriver("TransferAddon", a, d, sshOk, opOk)

\* lines 224-232: which payload operation the flag selects
dispatchBoth(en, a, d, sshOk, opOk) ==
  [calls |-> transferAddonViaDriver(a, d, sshOk, opOk).calls \o
             deleteAddonViaDriver(a, d, sshOk, opOk).calls,
   err |-> deleteAddonViaDriver(a, d, sshOk, opOk).err]

dispatch(en, a, d, sshOk, opOk) ==
  IF en THEN transferAddonViaDriver(a, d, sshOk, opOk)
  ELSE deleteAddonViaDriver(a, d, sshOk, opOk)

\* lines 226, 230, 233: the value returned after the payload operation
dispatchResultUnwrapped(en, e, n) == e

dispatchResult(en, e, n) ==
  IF e.nil THEN Nil
  ELSE IF en THEN Wrapf(e, "Error transferring addon ", n, " to VM")
  ELSE Wrapf(e, "Error deleting addon ", n, " from VM")

\* lines 224-232: host.Driver is read without testing err, so a nil host
\* panics (the deferred Close runs while the panic unwinds); otherwise the
\* payload operation is requested
Dispatch ==
  /\ cmd = "EnableOrDisableAddon" /\ pc = "Dispatch"
  /\ IF host.nil
     THEN /\ calls' = Append(calls, Call("Close", "api", TRUE))
          /\ api' = "closed"
          /\ status' = "panicked"
          /\ pc' = "done"
          /\ UNCHANGED <<err, ret>>
     ELSE \E sshOk \in BOOLEAN, opOk \in BOOLEAN :
            LET r == dispatch(enable, addon, host.Driver, sshOk, opOk) IN
              /\ calls' = calls \o r.calls
              /\ err' = r.err
              /\ ret' = dispatchResult(enable, r.err, name)
              /\ pc' = "Return"
              /\ UNCHANGED <<api, status>>
  /\ UNCHANGED <<m, clientType,
                 cmd, name, val, fns, idx, errors, settings, setting,
                 useVendoredDriver, enable, creds, addon, host, out>>

ReturnCloseTwice ==
  /\ cmd = "EnableOrDisableAddon" /\ pc = "Return"
  /\ calls' = calls \o <<Call("Close", "api", TRUE),
                          Call("Close", "api", TRUE)>>
  /\ api' = "closed"
  /\ status' = "returned"
  /\ pc' = "done"
  /\ UNCHANGED <<m, clientType, cmd, name, val, fns, idx, errors, settings,
                 setting, useVendoredDriver, enable, err, creds, addon, host,
                 ret, out>>

ReturnWithoutClose ==
  /\ cmd = "EnableOrDisableAddon" /\ pc = "Return"
  /\ status' = "returned"
  /\ pc' = "done"
  /\ UNCHANGED <<m, clientType,
                 cmd, name, val, fns, idx, errors, settings, setting,
                 useVendoredDriver, enable, err, creds, api, addon, host,
                 ret, calls, out>>

\* the return statements of lines 221, 226, 230, 233: the deferred
\* api.Close() of line 216 runs, then the caller gets ret
Return ==
  /\ cmd = "EnableOrDisableAddon" /\ pc = "Return"
  /\ calls' = Append(calls, Call("Close", "api", TRUE))
  /\ api' = "closed"
  /\ status' = "returned"
  /\ pc' = "done"
  /\ UNCHANGED <<m, clientType,
                 cmd, name, val, fns, idx, errors, settings, setting,
                 useVendoredDriver, enable, err, creds, addon, host, ret,
                 out>>

----------------------------------------------------------------------------
(* Typed mutators (util.go 60-83) and GetClientType (util.go 85-90) *)

MaxRawLen == 3

\* the values a MinikubeConfig entry can hold
StrVal(x) == [kind |-> "string", str |-> x, int |-> 0, bool |-> FALSE]
IntVal(x) == [kind |-> "int", str |-> "", int |-> x, bool |-> FALSE]
BoolVal(x) == [kind |-> "bool", str |-> "", int |-> 0, bool |-> x]

EmptyStore == [k \in {} |-> StrVal("")]

\* the stores a mutator is applied to
ConfigStores ==
  {EmptyStore,
   ("cpus" :> IntVal(2)),
   ("cpus" :> StrVal("two")) @@ ("vm-driver" :> StrVal("kvm")),
   ("vm-driver" :> BoolVal(TRUE)) @@ ("dashboard" :> BoolVal(FALSE))}

\* m[name] = v
StorePut(store, n, v) == (n :> v) @@ store

\* raw integer arguments are sequences of characters
RawChars == {"0", "2", "4", "a", "-", "+"}
Digits == {"0", "1", "2", "3", "4", "5", "6", "7", "8", "9"}
DigitVal ==
  ("0" :> 0) @@ ("1" :> 1) @@ ("2" :> 2) @@ ("3" :> 3) @@ ("4" :> 4) @@
  ("5" :> 5) @@ ("6" :> 6) @@ ("7" :> 7) @@ ("8" :> 8) @@ ("9" :> 9)

\* 9223372036854775807, the largest 64-bit int, digit by digit
MaxIntDigits ==
  <<"9", "2", "2", "3", "3", "7", "2", "0", "3", "6", "8", "5", "4", "7",
    "7", "5", "8", "0", "7">>

\* 9223372036854775808: one past the largest int
RawMaxIntPlusOne ==
  <<"9", "2", "2", "3", "3", "7", "2", "0", "3", "6", "8", "5", "4", "7",
    "7", "5", "8", "0", "8">>

\* 99999999999999999999: twenty digits
RawTwentyNines == [k \in 1..20 |-> "9"]

RawInts == SeqsUpTo(RawChars, MaxRawLen) \cup
           {RawMaxIntPlusOne, <<"+">> \o RawTwentyNines,
            <<"-">> \o RawTwentyNines}

RECURSIVE StripZeros(_)
StripZeros(ds) ==
  IF Len(ds) > 1 /\ ds[1] = "0" THEN StripZeros(Tail(ds)) ELSE ds

\* a <= b for digit sequences of the same length
RECURSIVE DigitsLeq(_, _)
DigitsLeq(a, b) ==
  IF Len(a) = 0 THEN TRUE
  ELSE IF DigitVal[a[1]] < DigitVal[b[1]] THEN TRUE
  ELSE IF DigitVal[a[1]] > DigitVal[b[1]] THEN FALSE
  ELSE DigitsLeq(Tail(a), Tail(b))

\* the magnitude ds exceeds what a 64-bit int holds; the negative range
\* reaches one further than the positive one
OutOfIntRange(ds, neg) ==
  LET sig == StripZeros(ds) IN
    \/ Len(sig) > Len(MaxIntDigits)
    \/ /\ Len(sig) = Len(MaxIntDigits)
       /\ ~DigitsLeq(sig, MaxIntDigits)
       /\ ~(neg /\ sig = RawMaxIntPlusOne)

\* n = n*10 + digit, left to right
RECURSIVE Horner(_, _)
Horner(ds, acc) ==
  IF Len(ds) = 0 THEN acc
  ELSE Horner(Tail(ds), acc * 10 + DigitVal[ds[1]])

AtoiSyntaxError(s) ==
  Err(<<"strconv.Atoi: parsing ", s, ": invalid syntax">>)

AtoiRangeError(s) ==
  Err(<<"strconv.Atoi: parsing ", s, ": value out of range">>)

\* strconv.Atoi: an optional sign, then one or more decimal digits, the
\* value within the int range
Atoi(s) ==
  LET signed == Len(s) > 0 /\ s[1] \in {"+", "-"}
      neg == Len(s) > 0 /\ s[1] = "-"
      ds == IF signed THEN Tail(s) ELSE s
  IN IF Len(ds) = 0 \/ (\E k \in 1..Len(ds) : ds[k] \notin Digits)
       THEN [i |-> 0, err |-> AtoiSyntaxError(s)]
     ELSE IF OutOfIntRange(ds, neg)
       THEN [i |-> 0, err |-> AtoiRangeError(s)]
     ELSE [i |-> IF neg THEN 0 - Horner(ds, 0) ELSE Horner(ds, 0),
           err |-> Nil]

\* what a mutator leaves behind: the store and the returned error
Finish(store, e) ==
  /\ m' = store
  /\ ret' = e
  /\ pc' = "done"
  /\ status' = "returned"
  /\ UNCHANGED <<clientType, cmd, name, val, fns, idx, errors, settings,
                 setting, useVendoredDriver, enable, err, creds, api, addon,
                 host, calls, out>>

\* lines 62-65
SetString ==
  /\ cmd = "SetString" /\ pc = "SetString"
  /\ Finish(StorePut(m, name, StrVal(val)), Nil)

SetIntStoreFirst ==
  /\ cmd = "SetInt" /\ pc = "SetInt"
  /\ Finish(StorePut(m, name, IntVal(Atoi(val).i)), Atoi(val).err)

\* lines 67-74
SetInt ==
  /\ cmd = "SetInt" /\ pc = "SetInt"
  /\ IF ~Atoi(val).err.nil
     THEN Finish(m, Atoi(val).err)
     ELSE Finish(StorePut(m, name, IntVal(Atoi(val).i)), Nil)

\* lines 76-83
SetBool ==
  /\ cmd = "SetBool" /\ pc = "SetBool"
  /\ IF ~ParseBool(val).err.nil
     THEN Finish(m, ParseBool(val).err)
     ELSE Finish(StorePut(m, name, BoolVal(ParseBool(val).val)), Nil)

\* lines 85-90, called on its own
GetClientTypeCall ==
  /\ cmd = "GetClientType" /\ pc = "GetClientType"
  /\ clientType' = GetClientType
  /\ pc' = "done"
  /\ status' = "returned"
  /\ UNCHANGED <<m, cmd, name, val, fns, idx, errors, settings, setting,
                 useVendoredDriver, enable, err, creds, api, addon, host,
                 ret, calls, out>>

----------------------------------------------------------------------------
(* Specification *)

DefaultSettings ==
  <<[name |-> "vm-driver", set |-> "SetString"],
    [name |-> "cpus", set |-> "SetInt"]>>

InitCommon ==
  /\ status = "running"
  /\ idx = 1
  /\ errors = <<>>
  /\ setting = ZeroSetting
  /\ enable = FALSE
  /\ err = Nil
  /\ creds = NoCreds
  /\ api = "none"
  /\ addon = NilAddon
  /\ host = NilHost
  /\ ret = Nil
  /\ calls = <<>>
  /\ out = <<>>
  /\ clientType = "none"

InitRun ==
  /\ cmd = "run" /\ pc = "run_loop"
  /\ name \in SettingNames
  /\ val \in Values
  /\ fns \in SeqsUpTo(SetFns, MaxFns)
  /\ settings = DefaultSettings
  /\ useVendoredDriver = FALSE
  /\ m = EmptyStore

InitFindSetting ==
  /\ cmd = "findSetting" /\ pc = "findSetting"
  /\ name \in SettingNames \cup {"no-such-setting"}
  /\ val = ""
  /\ fns = <<>>
  /\ settings \in SeqsUpTo(Settings, MaxSettings)
  /\ useVendoredDriver = FALSE
  /\ m = EmptyStore

\* the raw strings given to the boolean parser
BoolRaws ==
  {"1", "t", "T", "TRUE", "true", "True",
   "0", "f", "F", "FALSE", "false", "False",
   "maybe", "", "yes", "tRUE", "no"}

InitAddon ==
  /\ cmd = "EnableOrDisableAddon" /\ pc = "ParseFlag"
  /\ name \in AddonNames
  /\ val \in (IF name = "registry-creds" THEN FlagVals
              ELSE FlagVals \cup BoolRaws)
  /\ fns = <<>>
  /\ settings = DefaultSettings
  /\ useVendoredDriver \in BOOLEAN
  /\ m = EmptyStore

InitMutator ==
  /\ \/ cmd = "SetString" /\ val \in {"kvm", "42", ""}
     \/ cmd = "SetInt" /\ val \in RawInts
     \/ cmd = "SetBool" /\ val \in BoolRaws
  /\ pc = cmd
  /\ name \in SettingNames
  /\ fns = <<>>
  /\ settings = DefaultSettings
  /\ useVendoredDriver = FALSE
  /\ m \in ConfigStores

InitGetClientType ==
  /\ cmd = "GetClientType" /\ pc = "GetClientType"
  /\ name = "" /\ val = ""
  /\ fns = <<>>
  /\ settings = DefaultSettings
  /\ useVendoredDriver \in BOOLEAN
  /\ m = EmptyStore

Init ==
  InitCommon /\ (InitRun \/ InitFindSetting \/ InitAddon \/ InitMutator
                   \/ InitGetClientType)

Next ==
  \/ runIterate
  \/ runReturn
  \/ findSettingCall
  \/ ParseFlag
  \/ AskECR
  \/ AskGCR
  \/ AskDR
  \/ CreateECR
  \/ CreateGCR
  \/ CreateDPR
  \/ DeleteECR
  \/ DeleteGCR
  \/ DeleteDPR
  \/ NewAPIClient
  \/ EnsureRunning
  \/ ResolveAddon
  \/ LoadHost
  \/ Dispatch
  \/ Return
  \/ SetString
  \/ SetInt
  \/ SetBool
  \/ GetClientTypeCall

Spec == Init /\ [][Next]_vars

----------------------------------------------------------------------------
(* Observations on the call log *)

CallsOf(ops) == SelectSeq(calls, LAMBDA c : c.op \in ops)
Count(ops) == Len(CallsOf(ops))

PromptOps == {"AskForYesNoConfirmation", "AskForStaticValue"}
SecretOps == {"CreateSecret", "DeleteSecret"}
PayloadOps == {"TransferAddon", "DeleteAddon"}

SecretNames ==
  <<"registry-creds-ecr", "registry-creds-gcr", "registry-creds-dpr">>

InAddon == cmd = "EnableOrDisableAddon"

\* the secret phase of the invocation is over
PastSecrets ==
  InAddon /\ pc \in {"NewAPIClient", "EnsureRunning", "ResolveAddon",
                     "LoadHost", "Dispatch", "Return", "done"}

FlagParses == ParseBool(val).err.nil
FlagTrue == FlagParses /\ ParseBool(val).val
FlagFalse == FlagParses /\ ~ParseBool(val).val

\* the functions of fns that fail on (name, val)
Failing == {k \in 1..Len(fns) : ~ApplyFn(fns[k], name, val).nil}

----------------------------------------------------------------------------
(* Claims *)

\* C1: run returns nil exactly when no function of fns failed (so also for
\* an empty fns); otherwise it returns one non-nil error whose text
\* contains the message of every failing function.
C1_RunAggregates ==
  (cmd = "run" /\ status = "returned") =>
     /\ ret.nil <=> (Failing = {})
     /\ ~ret.nil =>
          \A k \in Failing :
             Contains(ret.text, ApplyFn(fns[k], name, val).text)

C1_Witness ==
  /\ cmd = "run" /\ status = "returned" /\ ~ret.nil
  /\ \E j \in Failing, k \in Failing :
        /\ j < k
        /\ fns[j].msg # fns[k].msg
        /\ Contains(ret.text, <<fns[j].msg>>)
        /\ Contains(ret.text, <<fns[k].msg>>)

\* C2: run never short-circuits: the calls made so far are the functions
\* of fns in list order, each once, each with the given (name, value), and
\* when run returns every function of fns has been called.
C2_RunCallsAllInOrder ==
  cmd = "run" =>
     /\ Len(calls) <= Len(fns)
     /\ \A k \in 1..Len(calls) :
           /\ calls[k].op = "fn"
           /\ calls[k].arg = [idx |-> k, fn |-> fns[k],
                              name |-> name, value |-> val]
     /\ status = "returned" => Len(calls) = Len(fns)

C2_Witness ==
  /\ cmd = "run" /\ status = "returned"
  /\ Len(fns) = MaxFns
  /\ 1 \in Failing
  /\ Len(calls) = Len(fns)
  /\ ~calls[1].res.nil

\* C3: when the flag parses to false, whatever the add-on name, no prompt
\* is asked and no secret creation is requested; the secret requests are
\* the deletions of registry-creds-ecr, -gcr, -dpr in kube-system, in that
\* order, all three once the secret phase is over whatever their results,
\* and the invocation never ends before requesting the client.
C3_DisableOnlyDeletes ==
  (InAddon /\ FlagFalse) =>
     /\ Count(PromptOps) = 0
     /\ Count({"CreateSecret"}) = 0
     /\ LET dels == CallsOf(SecretOps) IN
          /\ Len(dels) <= 3
          /\ \A k \in 1..Len(dels) :
                /\ dels[k].op = "DeleteSecret"
                /\ dels[k].arg = [ns |-> "kube-system",
                                  name |-> SecretNames[k]]
          /\ PastSecrets => Len(dels) = 3
     /\ status # "running" => Count({"NewAPIClient"}) = 1

C3_Witness ==
  /\ InAddon /\ FlagFalse /\ name = "registry-creds"
  /\ status = "returned" /\ ret.nil
  /\ \A k \in 1..3 : ~CallsOf(SecretOps)[k].res
  /\ Count({"DeleteAddon"}) = 1

\* the three yes/no confirmations were all asked and all declined
AllDeclined ==
  /\ Count({"AskForYesNoConfirmation"}) = 3
  /\ \A k \in 1..3 : ~CallsOf({"AskForYesNoConfirmation"})[k].res

\* C4: enabling registry-creds with the three confirmations declined
\* issues exactly three create requests (ecr, gcr, dpr in that order),
\* asks no free-text prompt, and every data value of each request is
\* "changeme".
C4_DeclinedCreatesPlaceholders ==
  (PastSecrets /\ FlagTrue /\ name = "registry-creds" /\ AllDeclined) =>
     /\ Count({"AskForStaticValue"}) = 0
     /\ LET crs == CallsOf(SecretOps) IN
          /\ Len(crs) = 3
          /\ \A k \in 1..3 :
                /\ crs[k].op = "CreateSecret"
                /\ crs[k].arg.ns = "kube-system"
                /\ crs[k].arg.name = SecretNames[k]
                /\ \A key \in DOMAIN crs[k].arg.data :
                      crs[k].arg.data[key] = "changeme"
          /\ DOMAIN crs[1].arg.data =
               {"AWS_ACCESS_KEY_ID", "AWS_SECRET_ACCESS_KEY",
                "aws-account", "aws-region"}

C4_Witness ==
  /\ InAddon /\ FlagTrue /\ name = "registry-creds" /\ AllDeclined
  /\ status = "returned"
  /\ Count({"CreateSecret"}) = 3
  /\ Count({"TransferAddon"}) = 1

\* C5: with an add-on name absent from the registry no transfer or delete
\* is requested, and an invocation that returns returns a non-nil
\* AddonNotFound error.
C5_MissingAddonIsAnError ==
  (InAddon /\ name \notin DOMAIN Addons) =>
     /\ Count(PayloadOps) = 0
     /\ status = "returned" => ~ret.nil

\* C6 as stated: no invocation ends, on any exit path, with an acquired
\* client handle that was not released.
C6_ReleasedOnEveryExit ==
  (InAddon /\ status # "running") => api # "open"

\* C6 amended: the handle is released on every path that returns to the
\* caller; the fatal exit of the client acquisition has no handle, and the
\* fatal exit of the running check ends the process with the handle
\* acquired and not released.
C6_ReleasedOnReturn ==
  InAddon =>
     /\ status = "returned" => (api = "closed" /\ Count({"Close"}) = 1)
     /\ status = "exited" =>
          /\ Count({"Close"}) = 0
          /\ IF calls[Len(calls)].op = "NewAPIClient"
             THEN api = "none" ELSE api = "open"

C6_Witness ==
  /\ InAddon /\ status = "returned" /\ ~ret.nil
  /\ api = "closed"
  /\ calls[Len(calls)].op = "Close"

\* a payload request was issued and succeeded
PayloadSucceeded ==
  \E k \in 1..Len(calls) : calls[k].op \in PayloadOps /\ calls[k].res

\* C7: an invocation whose flag parses, whose descriptor exists and whose
\* payload operation succeeds returns nil after exactly one dispatch
\* request: one transfer and no delete for a true flag, one delete and no
\* transfer for a false flag; no invocation requests both.
C7_ExactlyOneDispatch ==
  InAddon =>
     /\ ~(Count({"TransferAddon"}) > 0 /\ Count({"DeleteAddon"}) > 0)
     /\ (status = "returned" /\ FlagParses /\ name \in DOMAIN Addons
           /\ PayloadSucceeded) =>
          /\ ret.nil
          /\ FlagTrue => (Count({"TransferAddon"}) = 1
                            /\ Count({"DeleteAddon"}) = 0)
          /\ FlagFalse => (Count({"DeleteAddon"}) = 1
                             /\ Count({"TransferAddon"}) = 0)

C7_Witness ==
  /\ InAddon /\ status = "returned" /\ name = "dashboard" /\ val = "true"
  /\ PayloadSucceeded
  /\ ret.nil
  /\ Count({"TransferAddon"}) = 1

\* C8 as stated: on the Enable branch the three secrets are requested for
\* every add-on name.
C8_CreatesForEveryAddon ==
  (PastSecrets /\ enable) => Count({"CreateSecret"}) = 3

\* C8 amended: on the Enable branch the three secrets (ecr, gcr, dpr) are
\* requested only for registry-creds, after the three confirmations; for
\* any other add-on name no prompt is asked and no secret is requested.
C8_CreatesOnlyForRegistryCreds ==
  (PastSecrets /\ enable) =>
     IF name = "registry-creds"
     THEN /\ Count({"CreateSecret"}) = 3
          /\ Count({"DeleteSecret"}) = 0
          /\ Count({"AskForYesNoConfirmation"}) = 3
          /\ \A k \in 1..3 :
                CallsOf(SecretOps)[k].arg.name = SecretNames[k]
          /\ \A j \in 1..Len(calls), k \in 1..Len(calls) :
                (calls[j].op \in PromptOps /\ calls[k].op = "CreateSecret")
                   => j < k
     ELSE Count(SecretOps) = 0 /\ Count(PromptOps) = 0

C8_Witness ==
  /\ InAddon /\ enable /\ name = "dashboard" /\ status = "returned"
  /\ Count(SecretOps) = 0
  /\ Count({"TransferAddon"}) = 1

\* the transport could not be opened or the payload request failed
DispatchFailed ==
  \E k \in 1..Len(calls) :
     /\ calls[k].op \in PayloadOps \cup {"NewSSHClient"}
     /\ ~calls[k].res

SecretFailed ==
  \E k \in 1..Len(calls) : calls[k].op \in SecretOps /\ ~calls[k].res

\* C9: in an invocation that returns, the returned error is non-nil
\* exactly when the dispatch failed (opening the transport included), it
\* is then the failure wrapped with the add-on name, and secret failures
\* have no part in it.
C9_ReturnDecidedByDispatch ==
  (InAddon /\ status = "returned") =>
     /\ ~ret.nil <=> DispatchFailed
     /\ ~ret.nil =>
          /\ Len(ret.text) > 4
          /\ ret.text[1] = (IF enable THEN "Error transferring addon "
                                      ELSE "Error deleting addon ")
          /\ ret.text[2] = name
          /\ SubSeq(ret.text, 5, Len(ret.text)) = err.text

C9_Witness ==
  /\ InAddon /\ status = "returned"
  /\ SecretFailed
  /\ ret.nil
  /\ name = "registry-creds" /\ enable

C9_WitnessFailure ==
  /\ InAddon /\ status = "returned"
  /\ ~ret.nil
  /\ Count({"NewSSHClient"}) = 1 /\ Count(PayloadOps) = 0

\* the positions of the registry whose entry has the name looked up
Matches == {k \in 1..Len(settings) : settings[k].name = name}

First(S) == CHOOSE k \in S : \A j \in S : k <= j

\* C10: findSetting returns, with a nil error, the first entry of the
\* registry whose name is the argument when there is one, and otherwise a
\* NotFound error carrying the name; the registry is left as it was.
C10_FindSetting ==
  [][(cmd = "findSetting" /\ status' = "returned") =>
       /\ settings' = settings
       /\ IF Matches # {}
          THEN /\ ret'.nil
               /\ setting' = settings[First(Matches)]
               /\ setting'.name = name
          ELSE /\ ~ret'.nil
               /\ Contains(ret'.text, <<name>>)
               /\ ret' = NotFound(name)]_vars

C10_Witness ==
  /\ cmd = "findSetting" /\ status = "returned" /\ ret.nil
  /\ Cardinality(Matches) >= 2
  /\ \E k \in Matches : settings[k] # settings[First(Matches)]
  /\ setting = settings[First(Matches)]

C10_WitnessNotFound ==
  /\ cmd = "findSetting" /\ status = "returned" /\ ~ret.nil
  /\ Len(settings) = MaxSettings
  /\ Matches = {}

----------------------------------------------------------------------------
(* Claims on the typed mutators *)

\* s is a base-10 signed integer literal: an optional sign and then one
\* or more decimal digits
LiteralDigits(s) ==
  IF Len(s) > 0 /\ s[1] \in {"+", "-"} THEN SubSeq(s, 2, Len(s)) ELSE s

IsIntLiteral(s) ==
  /\ Len(LiteralDigits(s)) >= 1
  /\ \A k \in 1..Len(LiteralDigits(s)) : LiteralDigits(s)[k] \in Digits

RECURSIVE Pow10(_)
Pow10(n) == IF n = 0 THEN 1 ELSE 10 * Pow10(n - 1)

\* the number a digit sequence denotes, by place value
RECURSIVE PlaceValue(_)
PlaceValue(ds) ==
  IF Len(ds) = 0 THEN 0
  ELSE DigitVal[ds[1]] * Pow10(Len(ds) - 1) + PlaceValue(Tail(ds))

LiteralValue(s) ==
  IF s[1] = "-" THEN 0 - PlaceValue(LiteralDigits(s))
  ELSE PlaceValue(LiteralDigits(s))

\* the literal denotes a number of the 64-bit int range
FitsInt(s) ==
  LET sig == StripZeros(LiteralDigits(s)) IN
    \/ Len(sig) < 19
    \/ /\ Len(sig) = 19
       /\ \/ DigitsLeq(sig, MaxIntDigits)
          \/ s[1] = "-" /\ sig = RawMaxIntPlusOne

\* store t is store s with entry n set to v and nothing else changed
IsPut(s, t, n, v) ==
  /\ DOMAIN t = DOMAIN s \cup {n}
  /\ t[n] = v
  /\ \A k \in DOMAIN s \ {n} : t[k] = s[k]

\* C11 as stated: SetInt succeeds for every base-10 signed integer literal,
\* storing that integer under name and leaving the other entries, and
\* fails for every other raw string, leaving the whole store.
C11_SetIntEveryLiteral ==
  [][(cmd = "SetInt" /\ status' = "returned") =>
       IF IsIntLiteral(val)
       THEN /\ ret'.nil
            /\ IsPut(m, m', name, IntVal(LiteralValue(val)))
       ELSE /\ ~ret'.nil
            /\ m' = m]_vars

\* C11 amended: SetInt succeeds exactly for the base-10 signed integer
\* literals whose value is in the range of int, storing that integer under
\* name and leaving every other entry; for any other raw string (not a
\* literal, or a literal out of the int range) it returns a parse error
\* that cites the raw string and leaves the whole store as it was.
C11_SetIntLiteralInRange ==
  [][(cmd = "SetInt" /\ status' = "returned") =>
       IF IsIntLiteral(val) /\ FitsInt(val)
       THEN /\ ret'.nil
            /\ IsPut(m, m', name, IntVal(LiteralValue(val)))
       ELSE /\ ~ret'.nil
            /\ Len(ret'.text) = 3 /\ ret'.text[2] = val
            /\ m' = m]_vars

C11_Witness ==
  /\ cmd = "SetInt" /\ status = "returned" /\ ret.nil
  /\ name = "cpus" /\ val = <<"-", "4", "2">>
  /\ DOMAIN m = {"cpus", "vm-driver"}
  /\ m["cpus"] = IntVal(0 - 42)
  /\ m["vm-driver"] = StrVal("kvm")

C11_WitnessParseError ==
  /\ cmd = "SetInt" /\ status = "returned" /\ ~ret.nil
  /\ name = "cpus" /\ val = <<"4", "a">>
  /\ m = ("cpus" :> IntVal(2))

TrueLexemes == {"1", "t", "T", "TRUE", "true", "True"}
FalseLexemes == {"0", "f", "F", "FALSE", "false", "False"}

\* C12: SetBool succeeds exactly for the twelve boolean lexemes, storing
\* true under name for 1, t, T, TRUE, true, True and false for 0, f, F,
\* FALSE, false, False; for any other token it returns a parse error and
\* leaves the store; the enable flag of EnableOrDisableAddon is parsed by
\* the same rule.
C12_BoolLexemes ==
  [][/\ (cmd = "SetBool" /\ status' = "returned") =>
          IF val \in TrueLexemes
            THEN ret'.nil /\ IsPut(m, m', name, BoolVal(TRUE))
          ELSE IF val \in FalseLexemes
            THEN ret'.nil /\ IsPut(m, m', name, BoolVal(FALSE))
          ELSE ~ret'.nil /\ m' = m
     /\ (InAddon /\ pc = "ParseFlag" /\ pc' # "ParseFlag") =>
          /\ enable' = (val \in TrueLexemes)
          /\ err'.nil = (val \in TrueLexemes \cup FalseLexemes)]_vars

C12_Witness ==
  /\ cmd = "SetBool" /\ status = "returned" /\ ret.nil
  /\ val = "F" /\ name = "vm-driver"
  /\ m = ("vm-driver" :> BoolVal(FALSE)) @@ ("dashboard" :> BoolVal(FALSE))

C12_WitnessReject ==
  /\ cmd = "SetBool" /\ status = "returned" /\ ~ret.nil
  /\ val = "maybe"
  /\ m = ("cpus" :> IntVal(2))

C12_WitnessFlag ==
  /\ InAddon /\ pc # "ParseFlag" /\ val = "True" /\ enable

----------------------------------------------------------------------------
(* Claims on the flow of EnableOrDisableAddon *)

\* C13: a flag that does not parse neither aborts the invocation nor is
\* returned as an error: enable is false and the flow is that of the
\* Disable branch (the three deletions, the client request, the running
\* check, the payload delete request); the invocation can return nil, and
\* an error it returns is the wrapped delete failure.
C13_ParseFailureRunsDisable ==
  (InAddon /\ ~FlagParses /\ pc # "ParseFlag") =>
     /\ ~enable
     /\ Count(PromptOps) = 0
     /\ Count({"CreateSecret", "TransferAddon"}) = 0
     /\ LET dels == CallsOf(SecretOps) IN
          /\ \A k \in 1..Len(dels) :
                /\ dels[k].op = "DeleteSecret"
                /\ dels[k].arg.name = SecretNames[k]
          /\ PastSecrets => Len(dels) = 3
     /\ status # "running" =>
          /\ Len(calls) > 3
          /\ calls[4].op = "NewAPIClient"
     /\ status = "returned" =>
          /\ Count({"EnsureMinikubeRunningOrExit"}) = 1
          /\ Count({"NewSSHClient"}) = 1
          /\ Count({"DeleteAddon"}) <= 1
          /\ ret.nil <=> ~DispatchFailed
          /\ ~ret.nil => ret.text[1] = "Error deleting addon "

C13_Witness ==
  /\ InAddon /\ val = "maybe" /\ name = "dashboard"
  /\ status = "returned" /\ ret.nil
  /\ Count({"DeleteSecret"}) = 3
  /\ Count({"DeleteAddon"}) = 1

\* C14: on the registry-creds Enable path the three create requests are
\* issued in the order ecr, gcr, dpr whatever their results, the next
\* request after them is the client request, and an invocation that
\* returns has gone through the running check and the transfer dispatch.
C14_CreatesAreBestEffort ==
  (PastSecrets /\ enable /\ name = "registry-creds") =>
     /\ LET crs == CallsOf({"CreateSecret"}) IN
          /\ Len(crs) = 3
          /\ \A k \in 1..3 : crs[k].arg.name = SecretNames[k]
     /\ \A k \in 1..Len(calls) :
          (calls[k].op = "CreateSecret"
             /\ calls[k].arg.name = "registry-creds-dpr"
             /\ k < Len(calls)) => calls[k + 1].op = "NewAPIClient"
     /\ status # "running" => Count({"NewAPIClient"}) = 1
     /\ status = "returned" =>
          /\ Count({"EnsureMinikubeRunningOrExit"}) = 1
          /\ Count({"NewSSHClient"}) = 1
          /\ Count({"DeleteAddon"}) = 0

C14_Witness ==
  /\ InAddon /\ enable /\ name = "registry-creds"
  /\ status = "returned"
  /\ \A k \in 1..3 : ~CallsOf({"CreateSecret"})[k].res
  /\ Count({"TransferAddon"}) = 1

\* a client was requested and obtained
ClientAcquired ==
  \E k \in 1..Len(calls) : calls[k].op = "NewAPIClient" /\ calls[k].res

\* C15: the client is requested at most once; an invocation that returns
\* has released the handle exactly once, as its last act and after the
\* dispatch; before the return the handle is not released; an invocation
\* that ends with an unreleased handle, or with none, ended by the fatal
\* exit of the acquisition or of the running check.
C15_HandleScopedToInvocation ==
  InAddon =>
     /\ Count({"NewAPIClient"}) <= 1
     /\ Count({"Close"}) <= 1
     /\ Count({"Close"}) = 1 => ClientAcquired
     /\ pc # "done" => Count({"Close"}) = 0
     /\ status = "returned" =>
          /\ Count({"Close"}) = 1
          /\ calls[Len(calls)].op = "Close"
          /\ Count({"NewSSHClient"}) = 1
          /\ api = "closed"
     /\ (status # "running" /\ Count({"Close"}) = 0) =>
          /\ status = "exited"
          /\ calls[Len(calls)].op \in
               {"NewAPIClient", "EnsureMinikubeRunningOrExit"}
          /\ ~calls[Len(calls)].res

C15_Witness ==
  /\ InAddon /\ status = "returned" /\ ret.nil
  /\ Count({"NewAPIClient"}) = 1
  /\ Count({"DeleteAddon"}) = 1
  /\ Count({"Close"}) = 1
  /\ calls[Len(calls)].op = "Close"

DispatchOps == PayloadOps \cup {"NewSSHClient"}

\* C16: every request to the VM transport comes after a successful client
\* request followed by a running check that confirmed the cluster; a
\* failed client request or a cluster found not running ends the process
\* there: nothing is returned and nothing is dispatched.
C16_DispatchNeedsRunningCluster ==
  InAddon =>
     /\ \A k \in 1..Len(calls) :
          calls[k].op \in DispatchOps =>
             \E i \in 1..Len(calls), j \in 1..Len(calls) :
                /\ i < j /\ j < k
                /\ calls[i].op = "NewAPIClient" /\ calls[i].res
                /\ calls[j].op = "EnsureMinikubeRunningOrExit"
                /\ calls[j].res
     /\ \A k \in 1..Len(calls) :
          (calls[k].op \in {"NewAPIClient", "EnsureMinikubeRunningOrExit"}
             /\ ~calls[k].res) =>
               /\ k = Len(calls)
               /\ status = "exited"
               /\ ret.nil
               /\ Count(DispatchOps) = 0

C16_Witness ==
  /\ InAddon /\ status = "returned"
  /\ Count({"TransferAddon"}) = 1
  /\ ClientAcquired

C16_WitnessNotRunning ==
  /\ InAddon /\ status = "exited"
  /\ calls[Len(calls)].op = "EnsureMinikubeRunningOrExit"
  /\ Count(DispatchOps) = 0

\* position in the log of the first call of the operation
IndexOf(op) == CHOOSE k \in 1..Len(calls) :
                  /\ calls[k].op = op
                  /\ \A j \in 1..(k - 1) : calls[j].op # op

\* C17: when GCR is confirmed, a failed read of the credentials file does
\* not abort: a warning is printed, the Docker registry confirmation is
\* asked next, the three create requests are issued and the GCR request
\* carries the placeholder "changeme"; after a successful read it carries
\* the file content.
C17_GcrReadFailureFallsBack ==
  (InAddon /\ Count({"ReadFile"}) > 0) =>
     /\ Count({"ReadFile"}) = 1
     /\ pc # "done" => status = "running"
     /\ LET r == IndexOf("ReadFile") IN
          /\ r < Len(calls) =>
               /\ calls[r + 1].op = "AskForYesNoConfirmation"
               /\ calls[r + 1].arg = "enable Docker Registry?"
          /\ (calls[r].res = "error") <=>
               (\E k \in 1..Len(out) : out[k] = ReadFileWarning)
          /\ PastSecrets =>
               /\ Count({"CreateSecret"}) = 3
               /\ LET gcr == CallsOf({"CreateSecret"})[2] IN
                    /\ gcr.arg.name = "registry-creds-gcr"
                    /\ gcr.arg.data =
                         ("application_default_credentials.json" :>
                            IF calls[r].res = "error" THEN "changeme"
                            ELSE calls[r].res)

C17_Witness ==
  /\ InAddon /\ status = "returned"
  /\ Count({"ReadFile"}) = 1
  /\ calls[IndexOf("ReadFile")].res = "error"
  /\ Count({"CreateSecret"}) = 3
  /\ CallsOf({"CreateSecret"})[2].arg.data =
       ("application_default_credentials.json" :> "changeme")

C17_WitnessRead ==
  /\ InAddon /\ status = "returned"
  /\ Count({"ReadFile"}) = 1
  /\ CallsOf({"CreateSecret"})[2].arg.data =
       ("application_default_credentials.json" :> "adc-json")

\* C18: GetClientType returns Local exactly when the use-vendored-driver
\* flag is true and RPC otherwise, the flag is never modified, and the
\* client request of EnableOrDisableAddon carries the type the flag
\* selects at that moment.
C18_ClientTypeFollowsFlag ==
  [][/\ useVendoredDriver' = useVendoredDriver
     /\ (cmd = "GetClientType" /\ status' = "returned") =>
          clientType' = (IF useVendoredDriver THEN "ClientTypeLocal"
                                              ELSE "ClientTypeRPC")
     /\ (InAddon /\ pc = "NewAPIClient") =>
          /\ Len(calls') = Len(calls) + 1
          /\ calls'[Len(calls')].op = "NewAPIClient"
          /\ calls'[Len(calls')].arg =
               (IF useVendoredDriver THEN "ClientTypeLocal"
                                     ELSE "ClientTypeRPC")]_vars

C18_Witness ==
  /\ InAddon /\ useVendoredDriver /\ api = "open"
  /\ calls[Len(calls)].op = "NewAPIClient"
  /\ calls[Len(calls)].arg = "ClientTypeLocal"

C18_WitnessCall ==
  /\ cmd = "GetClientType" /\ status = "returned"
  /\ ~useVendoredDriver /\ clientType = "ClientTypeRPC"

\* C19: every secret request of an invocation precedes its client request
\* and its running check; an invocation ended by the fatal exit has issued
\* all the secret requests of its branch and none that undoes them.
C19_SecretsBeforeClient ==
  InAddon =>
     /\ \A j \in 1..Len(calls), k \in 1..Len(calls) :
          (calls[j].op \in SecretOps
             /\ calls[k].op \in {"NewAPIClient",
                                 "EnsureMinikubeRunningOrExit"}) => j < k
     /\ status = "exited" =>
          IF enable
          THEN /\ Count({"DeleteSecret"}) = 0
               /\ Count({"CreateSecret"}) =
                    (IF name = "registry-creds" THEN 3 ELSE 0)
          ELSE /\ Count({"CreateSecret"}) = 0
               /\ Count({"DeleteSecret"}) = 3

C19_Witness ==
  /\ InAddon /\ status = "exited" /\ enable /\ name = "registry-creds"
  /\ Count({"CreateSecret"}) = 3
  /\ calls[Len(calls)].op = "EnsureMinikubeRunningOrExit"

HostLoadFailed ==
  \E k \in 1..Len(calls) :
     calls[k].op = "CheckIfApiExistsAndLoad" /\ ~calls[k].res

\* C20: a payload request is issued only after the host was resolved, and
\* an invocation whose host could not be resolved returns that failure to
\* the caller without a dispatch request.
C20_HostFailureIsReturned ==
  InAddon =>
     /\ Count(DispatchOps) > 0 => ~HostLoadFailed
     /\ (HostLoadFailed /\ status # "running") =>
          /\ status = "returned"
          /\ ~ret.nil
          /\ Count(DispatchOps) = 0
====
